---- MODULE Spec2Model ----
(***************************************************************************)
(* hash-wasm: the algorithm facades crc32, sha224 and xxhash64.            *)
(*                                                                         *)
(* One behaviour is the life of one facade (alg): its shared cached        *)
(* module used by the one-shot calculate() calls, and the private modules  *)
(* of the Hashers it creates.  JavaScript runs every callback to           *)
(* completion, so one action is one synchronous stretch of code: a call    *)
(* up to the point where it returns its promise, the settling of a loader  *)
(* promise, or one promise continuation taken from the microtask queue.    *)
(*                                                                         *)
(* lockedCreate, Mutex and WASMInterface are imported by the facades but   *)
(* are not part of the sources at hand; they are modelled from their       *)
(* written contract (single-flight cache cell, module loader, compute      *)
(* module wrapper).                                                        *)
(***************************************************************************)
EXTENDS Integers, Sequences, FiniteSets, TLC

VARIABLES
  alg,         \* which facade this behaviour is about
  policy,      \* what the cache cell does after a failed load, once one failed
  wasmCache,   \* the facade's `let wasmCache`: 0 (null) or a module id
  seedBuffer,  \* xxhash64.ts: the module-level 8 byte scratch buffer
  mutex,       \* the facade's `const mutex`: the single-flight cell
  modules,     \* every compute module the loader has produced, by id
  calls,       \* calculate() calls that took the cache-empty path
  hashers,     \* createHasher() calls and the Hashers they produced
  blob,        \* the last value a Hasher's save() returned, and its origin
  microtasks,  \* promise continuations that are ready to run, in order
  loads,       \* loader invocations: started by lockedCreate and by
               \* createHasher, and of lockedCreate's the failed and settled
  last         \* what the last step did (operation, arguments, outcome)

vars == <<alg, policy, wasmCache, seedBuffer, mutex, modules, calls,
          hashers, blob, microtasks, loads, last>>

----------------------------------------------------------------------------
(* Bounds of the model *)

\* Spec: calculate() calls issued while the cache is empty
MaxCalls == 2
\* Spec: createHasher() calls
MaxCreate == 1
\* SpecHasher: createHasher() calls plus calculate() calls issued while
\* the cache is empty
MaxTasks == 2
\* SpecHasher: bytes a Hasher accumulates between two resets
MaxAcc == 2

----------------------------------------------------------------------------
(* Values *)

Algs == {"crc32", "sha224", "xxhash64"}

\* A JavaScript number n is held as hi * 2^16 + lo, plus one half when
\* frac: 2^32 and 0xFFFFFFFF do not fit the checker's integers.
Num(hi, lo, frac) == [hi |-> hi, lo |-> lo, frac |-> frac]

Zero == Num(0, 0, FALSE)
\* 0x01020304: its four bytes differ, so byte order shows
SeedA == Num(258, 772, FALSE)
\* 0xFFFFFFFF
MaxU32 == Num(65535, 65535, FALSE)
\* -1
MinusOne == Num(-1, 65535, FALSE)
\* 2^32
TwoTo32 == Num(65536, 0, FALSE)
\* 1.5
OneAndHalf == Num(0, 1, TRUE)

\* an argument the caller left out
Undefined == [undefined |-> TRUE]
Null == [null |-> TRUE]

ValidSeedArgs == { <<Undefined, Undefined>>, <<Zero, Zero>>, <<SeedA, MaxU32>> }
InvalidSeedArgs == { <<MinusOne, Zero>>, <<Zero, TwoTo32>>, <<OneAndHalf, Undefined>> }
SeedArgs == ValidSeedArgs \cup InvalidSeedArgs

\* input data: byte sequences, and a value that is no string, Buffer or
\* TypedArray
BadData == <<-1>>
CalcData == { <<>>, <<7>>, BadData }
UpdateData == { <<>>, <<1>>, <<1, 2>> }

IsError(r) == "error" \in DOMAIN r
Error(kind, n) == [error |-> kind, n |-> n]
SeedError == Error("Seed must be given as two valid 32-bit long unsigned integer (lo + high).", 0)
ComputeError == Error("ComputeError", 0)
LoadError(n) == Error("LoadError", n)
\* TypeError: obj.save / obj.load is not a function
NotAFunction == Error("TypeError", 0)

----------------------------------------------------------------------------
(* xxhash64.ts: seed validation and encoding *)

\* validateSeed without its `seed > 0xFFFFFFFF` test
validateSeedNoUpperBound(seed) ==
  IF seed.frac \/ seed.hi < 0 THEN SeedError ELSE Null

\* function validateSeed(seed): an Error, or null
validateSeed(seed) ==
  IF seed.frac \/ seed.hi < 0 \/ seed.hi > 65535 THEN SeedError ELSE Null

\* DataView.setUint32(_, n, true): ToUint32(n), least significant byte first
SetUint32LE(n) ==
  << n.lo % 256, n.lo \div 256, (n.hi % 65536) % 256, (n.hi % 65536) \div 256 >>

\* DataView.setUint32(_, n, false): most significant byte first
SetUint32BE(n) ==
  << (n.hi % 65536) \div 256, (n.hi % 65536) % 256, n.lo \div 256, n.lo % 256 >>

\* writeSeed that writes both words big-endian
writeSeedBigEndian(arr, low, high) == SetUint32BE(low) \o SetUint32BE(high)

\* function writeSeed(arr, low, high): the buffer's 8 bytes afterwards
writeSeed(arr, low, high) == SetUint32LE(low) \o SetUint32LE(high)

\* default parameter value `= 0`
Default(x) == IF x = Undefined THEN Zero ELSE x

----------------------------------------------------------------------------
(* WASMInterface: the compute module wrapper around one backend module.    *)
(* A module is its linear memory, where seed and input bytes are           *)
(* marshalled at offset 0, and the backend's hash state; log lists the     *)
(* wrapper operations of the running step.                                 *)

\* new ArrayBuffer(8): the size of the seed area
SeedBytes == 8

ZeroBytes == [i \in 1..SeedBytes |-> 0]

\* the hash state of a module no init() has touched
Blank == [variant |-> -1, seed |-> <<>>, data |-> <<>>]

\* the module a successful WASMInterface(binary, hashLength) resolves with
NewModule(id, hashLength) ==
  [id |-> id, hashLength |-> hashLength, mem |-> ZeroBytes, st |-> Blank, log |-> <<>>]

Logged(m, entry) == [m EXCEPT !.log = Append(@, entry)]

\* writeMemory(bytes, offset = 0)
WriteMemory(m, bytes) ==
  Logged([m EXCEPT !.mem = bytes \o SubSeq(@, Len(bytes) + 1, Len(@))],
         [op |-> "writeMemory", bytes |-> bytes])

\* init(variant): the backend resets its state; the seeded backend takes
\* its seed from the first 8 bytes of memory
WasmInit(m, variant) ==
  Logged([m EXCEPT !.st = [variant |-> variant,
                           seed |-> IF alg = "xxhash64"
                                    THEN SubSeq(m.mem, 1, SeedBytes) ELSE <<>>,
                           data |-> <<>>]],
         [op |-> "init", variant |-> variant])

\* update(data): the bytes go to memory at offset 0, the backend's
\* update(len) consumes them from there
WasmUpdate(m, data) ==
  LET w == [m EXCEPT !.mem = data \o SubSeq(@, Len(data) + 1, Len(@))]
  IN  Logged([w EXCEPT !.st.data = @ \o SubSeq(w.mem, 1, Len(data))],
             [op |-> "update", data |-> data])

\* the digest the backend computes for a hash state: one value per
\* (algorithm, digest size, variant, seed, input)
HashOf(hashLength, st) ==
  [hash |-> alg, size |-> hashLength, variant |-> st.variant,
   seed |-> st.seed, data |-> st.data]

\* digest(outputType): reads the finalized state, the hash state stays
WasmDigestValue(m) == HashOf(m.hashLength, m.st)
WasmDigest(m) == Logged(m, [op |-> "digest"])

\* save() / load(blob): the hash state, copied out of / into the backend
WasmSaveValue(m) == [state |-> m.st]
WasmSave(m) == Logged(m, [op |-> "save"])
WasmLoad(m, b) == Logged([m EXCEPT !.st = b.state], [op |-> "load"])

\* calculate(data, variant) = init, update(data), digest('hex'); update
\* throws on data it cannot convert to bytes.  The module afterwards and
\* the value returned or thrown.
WasmCalculate(m, data, variant) ==
  LET i == WasmInit(m, variant)
      u == WasmUpdate(i, data)
  IN  IF data = BadData
      THEN [m |-> Logged(i, [op |-> "update", data |-> data]), ret |-> ComputeError]
      ELSE [m |-> WasmDigest(u), ret |-> WasmDigestValue(u)]

\* a module as it is kept between steps
Kept(m) == [m EXCEPT !.log = <<>>]

----------------------------------------------------------------------------
(* The facades: what differs between crc32.ts, sha224.ts and xxhash64.ts *)

\* the hashLength each facade passes to lockedCreate / WASMInterface
HashLength == CASE alg = "crc32" -> 4 [] alg = "sha224" -> 28 [] alg = "xxhash64" -> 8

\* calculate(data) and init() without a variant argument
NoVariant == 0

\* sha224.ts passes 224 to calculate() and init(); the others pass nothing
Variant == IF alg = "sha224" THEN 224 ELSE NoVariant

\* only xxhash64 and createXXHash64 take (seedLow, seedHigh)
Seeded == alg = "xxhash64"
SeedArgsOf == IF Seeded THEN SeedArgs ELSE { <<Undefined, Undefined>> }

\* the two `if (validateSeed(..)) return Promise.reject(validateSeed(..))`
SeedCheck(seedLow, seedHigh) ==
  IF ~Seeded THEN Null
  ELSE IF validateSeed(seedLow) # Null THEN validateSeed(seedLow)
  ELSE IF validateSeed(seedHigh) # Null THEN validateSeed(seedHigh)
  ELSE Null

\* the statements run on the cached module m, by the first-use
\* continuation after `wasmCache = wasm` and by the cache-ready path:
\* [writeSeed(seedBuffer, ..); wasmCache.writeMemory(..);]
\* wasmCache.calculate(data[, 224]).  buf is seedBuffer.
OnCache(m, buf, data, seedLow, seedHigh) ==
  IF Seeded
  THEN LET b == writeSeed(buf, seedLow, seedHigh)
           r == WasmCalculate(WriteMemory(m, b), data, NoVariant)
       IN  [m |-> r.m, ret |-> r.ret, buf |-> b]
  ELSE LET r == WasmCalculate(m, data, Variant)
       IN  [m |-> r.m, ret |-> r.ret, buf |-> buf]

\* OnCreate with wasm.init() in place of wasm.init(224)
OnCreateNoVariant(m, seedLow, seedHigh) ==
  IF Seeded
  THEN LET b == writeSeed(ZeroBytes, seedLow, seedHigh)
       IN  [m |-> WasmInit(WriteMemory(m, b), NoVariant), instanceBuffer |-> b]
  ELSE [m |-> WasmInit(m, NoVariant), instanceBuffer |-> <<>>]

\* the body of createHasher's continuation on the fresh module m:
\* [instanceBuffer = new ArrayBuffer(8); writeSeed(instanceBuffer, ..);
\* wasm.writeMemory(..);] wasm.init([224])
OnCreate(m, seedLow, seedHigh) ==
  IF Seeded
  THEN LET b == writeSeed(ZeroBytes, seedLow, seedHigh)
       IN  [m |-> WasmInit(WriteMemory(m, b), NoVariant), instanceBuffer |-> b]
  ELSE [m |-> WasmInit(m, Variant), instanceBuffer |-> <<>>]

\* obj.init that sends the module-level seedBuffer
ObjInitSharedBuffer(m, instanceBuffer) ==
  IF Seeded THEN WasmInit(WriteMemory(m, seedBuffer), NoVariant)
  ELSE WasmInit(m, Variant)

\* obj.init without the writeMemory before wasm.init
ObjInitNoSeedWrite(m, instanceBuffer) ==
  IF Seeded THEN WasmInit(m, NoVariant) ELSE WasmInit(m, Variant)

\* obj.init: [wasm.writeMemory(new Uint8Array(instanceBuffer));] wasm.init([224])
ObjInit(m, instanceBuffer) ==
  IF Seeded THEN WasmInit(WriteMemory(m, instanceBuffer), NoVariant)
  ELSE WasmInit(m, Variant)

\* obj.digest that resets the module after reading the digest
ObjDigestResets(m) ==
  [m |-> WasmInit(WasmDigest(m), Variant), ret |-> WasmDigestValue(m)]

\* obj.update, obj.digest, obj.save, obj.load
ObjUpdate(m, data) == WasmUpdate(m, data)
ObjDigest(m) == [m |-> WasmDigest(m), ret |-> WasmDigestValue(m)]
ObjSave(m) == [m |-> WasmSave(m), ret |-> WasmSaveValue(m)]
ObjLoad(m, b) == WasmLoad(m, b)

\* createSHA224's object has no save and no load
HasSaveLoad == alg # "sha224"

----------------------------------------------------------------------------
(* lockedCreate(mutex, binary, hashLength) and the mutex: the single-flight *)
(* cache cell.  state is Empty, Loading, Ready or Failed; waiters are the   *)
(* calls (indices into calls) whose lockedCreate promise is pending.        *)

EmptyCell == [state |-> "Empty", module |-> 0, error |-> Null, waiters |-> <<>>]

\* after a failed load the cell either keeps the error for every later
\* caller or lets the next caller start a new load: one of the two, for
\* the life of the facade.  Which one shows at the first failed load.
Policies == {"sticky", "retry"}

\* lockedCreate that does not join a load in flight but invokes the
\* loader for every caller that finds no module
lockedCreateNoJoin(c) ==
  CASE mutex.state = "Ready" ->
         [mutex |-> mutex, invoke |-> FALSE, promise |-> "resolved"]
    [] mutex.state = "Failed" /\ policy = "sticky" ->
         [mutex |-> mutex, invoke |-> FALSE, promise |-> "rejected"]
    [] OTHER ->
         [mutex |-> [state |-> "Loading", module |-> 0, error |-> Null,
                     waiters |-> IF mutex.state = "Loading"
                                 THEN Append(mutex.waiters, c) ELSE <<c>>],
          invoke |-> TRUE, promise |-> "pending"]

\* lockedCreate that does not register a caller that finds a load in
\* flight
lockedCreateNoWaiter(c) ==
  CASE mutex.state = "Empty" \/ (mutex.state = "Failed" /\ policy = "retry") ->
         [mutex |-> [state |-> "Loading", module |-> 0, error |-> Null, waiters |-> <<c>>],
          invoke |-> TRUE, promise |-> "pending"]
    [] mutex.state = "Loading" ->
         [mutex |-> mutex, invoke |-> FALSE, promise |-> "pending"]
    [] mutex.state = "Ready" ->
         [mutex |-> mutex, invoke |-> FALSE, promise |-> "resolved"]
    [] OTHER ->
         [mutex |-> mutex, invoke |-> FALSE, promise |-> "rejected"]

\* lockedCreate called by call c: the cell afterwards, whether the loader
\* is invoked, and what the returned promise does
lockedCreate(c) ==
  CASE mutex.state = "Empty" \/ (mutex.state = "Failed" /\ policy = "retry") ->
         [mutex |-> [state |-> "Loading", module |-> 0, error |-> Null, waiters |-> <<c>>],
          invoke |-> TRUE, promise |-> "pending"]
    [] mutex.state = "Loading" ->
         [mutex |-> [mutex EXCEPT !.waiters = Append(@, c)],
          invoke |-> FALSE, promise |-> "pending"]
    [] mutex.state = "Ready" ->
         [mutex |-> mutex, invoke |-> FALSE, promise |-> "resolved"]
    [] OTHER ->
         [mutex |-> mutex, invoke |-> FALSE, promise |-> "rejected"]

\* loadSettled of a plain lock: it hands the outcome to the first waiter
\* alone and runs the next waiter's own load
loadSettledSerial(id, err) ==
  LET rest == Tail(mutex.waiters)
      next == IF rest = <<>> THEN EmptyCell
              ELSE [state |-> "Loading", module |-> 0, error |-> Null, waiters |-> rest]
  IN  [mutex |-> next,
       resolved |-> IF id # 0 THEN <<Head(mutex.waiters)>> ELSE <<>>,
       rejected |-> IF id # 0 THEN <<>> ELSE <<Head(mutex.waiters)>>,
       invoke |-> rest # <<>>]

\* loadSettled that hands a failure to the caller that started the load
\* and to no other waiter
loadSettledFirstOnly(id, err) ==
  IF id # 0
  THEN [mutex |-> [state |-> "Ready", module |-> id, error |-> Null, waiters |-> <<>>],
        resolved |-> mutex.waiters, rejected |-> <<>>, invoke |-> FALSE]
  ELSE [mutex |-> [state |-> "Failed", module |-> 0, error |-> err, waiters |-> <<>>],
        resolved |-> <<>>, rejected |-> <<Head(mutex.waiters)>>, invoke |-> FALSE]

\* the loader invocation of the cell settles, with module id or with error
\* err (id = 0): the cell afterwards, the waiters it resolves and rejects,
\* and whether it invokes the loader again
loadSettled(id, err) ==
  IF id # 0
  THEN [mutex |-> [state |-> "Ready", module |-> id, error |-> Null, waiters |-> <<>>],
        resolved |-> mutex.waiters, rejected |-> <<>>, invoke |-> FALSE]
  ELSE [mutex |-> [state |-> "Failed", module |-> 0, error |-> err, waiters |-> <<>>],
        resolved |-> <<>>, rejected |-> mutex.waiters, invoke |-> FALSE]

Range(q) == { q[i] : i \in DOMAIN q }

----------------------------------------------------------------------------
(* The handlers of the facades, as functions of the state they read *)

\* ThenCalculate without `wasmCache = wasm`: it works on wasm directly
ThenCalculateNoAssign(wasm, c) ==
  LET r == OnCache(modules[wasm], seedBuffer, calls[c].data,
                   calls[c].seedLow, calls[c].seedHigh)
  IN  [cache |-> wasmCache, m |-> r.m, buf |-> r.buf, ret |-> r.ret]

\* ThenCalculate without writeSeed: it sends seedBuffer as it finds it
ThenCalculateStaleSeed(wasm, c) ==
  LET r == IF Seeded
           THEN WasmCalculate(WriteMemory(modules[wasm], seedBuffer),
                              calls[c].data, NoVariant)
           ELSE WasmCalculate(modules[wasm], calls[c].data, Variant)
  IN  [cache |-> wasm, m |-> r.m, buf |-> seedBuffer, ret |-> r.ret]

\* ThenCalculate that gives the module up when the computation throws
ThenCalculateDropOnError(wasm, c) ==
  LET r == OnCache(modules[wasm], seedBuffer, calls[c].data,
                   calls[c].seedLow, calls[c].seedHigh)
  IN  [cache |-> IF IsError(r.ret) THEN 0 ELSE wasm, m |-> r.m, buf |-> r.buf,
       ret |-> r.ret]

\* calculate(), cache-empty branch, continuation `.then((wasm) => {..})`
\* of call c: wasmCache = wasm; then the statements on wasmCache
ThenCalculate(wasm, c) ==
  LET r == OnCache(modules[wasm], seedBuffer, calls[c].data,
                   calls[c].seedLow, calls[c].seedHigh)
  IN  [cache |-> wasm, m |-> r.m, buf |-> r.buf, ret |-> r.ret]

\* ReadyCalculate without writeSeed: it sends seedBuffer as it finds it
ReadyCalculateNoWriteSeed(data, seedLow, seedHigh) ==
  LET r == IF Seeded
           THEN WasmCalculate(WriteMemory(modules[wasmCache], seedBuffer), data, NoVariant)
           ELSE WasmCalculate(modules[wasmCache], data, Variant)
  IN  [m |-> r.m, ret |-> r.ret, buf |-> seedBuffer,
       how |-> IF IsError(r.ret) THEN "rejected" ELSE "resolved"]

\* ReadyCalculate without try / catch: what the cached module throws
\* leaves the call as an exception
ReadyCalculateNoCatch(data, seedLow, seedHigh) ==
  LET r == OnCache(modules[wasmCache], seedBuffer, data, seedLow, seedHigh)
  IN  [m |-> r.m, ret |-> r.ret, buf |-> r.buf,
       how |-> IF IsError(r.ret) THEN "thrown" ELSE "resolved"]

\* calculate(), cache-ready branch: try { ..; return Promise.resolve(hash) }
\* catch (err) { return Promise.reject(err) }
ReadyCalculate(data, seedLow, seedHigh) ==
  LET r == OnCache(modules[wasmCache], seedBuffer, data, seedLow, seedHigh)
  IN  [m |-> r.m, ret |-> r.ret, buf |-> r.buf,
       how |-> IF IsError(r.ret) THEN "rejected" ELSE "resolved"]

\* calculate() that goes through lockedCreate on every call
CacheEmptyAlways == TRUE

\* the test `if (wasmCache === null)` of calculate()
CacheEmpty == wasmCache = 0

\* CreateStart that reuses the cached module when there is one
CreateStartFromCache == [invoke |-> wasmCache = 0, wasm |-> wasmCache]

\* createHasher(): `return WASMInterface(wasmJson, n).then(..)`: the loader
\* is invoked; wasm # 0 would bind the Hasher to an existing module
CreateStart == [invoke |-> TRUE, wasm |-> 0]

\* last: the operation of the last step, the call or Hasher it belongs to,
\* its seed arguments and the data it passed on, what it returned or
\* threw, and the module it worked on with the wrapper operations it made
\* how is the way a call handed its outcome to its caller: a promise
\* that is pending, resolved or rejected when the call returns, or an
\* exception thrown out of the call
NoCall ==
  [op |-> "none", who |-> 0, args |-> <<>>, data |-> <<>>, ret |-> Null,
   mod |-> 0, trace |-> <<>>, from |-> "none", how |-> "none"]
Did(op, who, args, data, ret, mod, trace) ==
  [op |-> op, who |-> who, args |-> args, data |-> data, ret |-> ret,
   mod |-> mod, trace |-> trace, from |-> "none", how |-> "none"]
\* the same for an operation of Hasher h: from is its label before the step
DidOn(op, h, data, ret, mod, trace) ==
  [op |-> op, who |-> h, args |-> <<>>, data |-> data, ret |-> ret,
   mod |-> mod, trace |-> trace, from |-> hashers[h].label, how |-> "none"]
\* a call that returned a promise in the state how
Promised(did, how) == [did EXCEPT !.how = how]

----------------------------------------------------------------------------
(* Initial state: the facade's module has just been evaluated *)

Init ==
  /\ alg \in Algs
  /\ policy = "unseen"
  /\ wasmCache = 0
  /\ seedBuffer = ZeroBytes
  /\ mutex = EmptyCell
  /\ modules = <<>>
  /\ calls = <<>>
  /\ hashers = <<>>
  /\ blob = Null
  /\ microtasks = <<>>
  /\ loads = [lockedCreate |-> 0, createHasher |-> 0, failed |-> 0, settled |-> 0]
  /\ last = NoCall

----------------------------------------------------------------------------
(* One-shot calculate(): crc32(data), sha224(data),                        *)
(* xxhash64(data, seedLow, seedHigh)                                       *)

\* a seed argument is rejected: Promise.reject(validateSeed(..))
CalculateRejected(a) ==
  LET seedLow == Default(a[1])
      seedHigh == Default(a[2])
  IN  /\ SeedCheck(seedLow, seedHigh) # Null
      /\ last' = Promised(Did("calculate", 0, a, <<>>, SeedCheck(seedLow, seedHigh), 0, <<>>),
                           "rejected")
      /\ UNCHANGED <<alg, policy, wasmCache, seedBuffer, mutex, modules, calls,
                     hashers, blob, microtasks, loads>>

\* wasmCache === null: lockedCreate(mutex, wasmJson, n).then(..)
CalculateFirstUse(data, a) ==
  LET seedLow == Default(a[1])
      seedHigh == Default(a[2])
      c == Len(calls) + 1
      lc == lockedCreate(c)
      status == CASE lc.promise = "pending" -> "waiting"
                  [] lc.promise = "resolved" -> "queued"
                  [] OTHER -> "rejected"
      result == IF lc.promise = "rejected" THEN mutex.error ELSE Null
  IN  /\ SeedCheck(seedLow, seedHigh) = Null
      /\ CacheEmpty
      /\ mutex' = lc.mutex
      /\ loads' = [loads EXCEPT !.lockedCreate = @ + (IF lc.invoke THEN 1 ELSE 0)]
      /\ calls' = Append(calls, [data |-> data, seedLow |-> seedLow, seedHigh |-> seedHigh,
                                 status |-> status, result |-> result,
                                 born |-> loads.failed,
                                 joined |-> mutex.state = "Loading", mod |-> 0])
      /\ microtasks' = IF lc.promise = "resolved"
                       THEN Append(microtasks, [kind |-> "calculate", i |-> c,
                                                wasm |-> mutex.module])
                       ELSE microtasks
      /\ last' = Promised(Did("calculate", c, a, data, result, 0, <<>>), "pending")
      /\ UNCHANGED <<alg, policy, wasmCache, seedBuffer, modules, hashers, blob>>

\* wasmCache !== null: the synchronous try { .. } catch
CalculateReady(data, a) ==
  LET seedLow == Default(a[1])
      seedHigh == Default(a[2])
      r == ReadyCalculate(data, seedLow, seedHigh)
  IN  /\ SeedCheck(seedLow, seedHigh) = Null
      /\ ~CacheEmpty
      /\ seedBuffer' = r.buf
      /\ modules' = [modules EXCEPT ![r.m.id] = Kept(r.m)]
      /\ last' = Promised(Did("calculate", 0, a, data, r.ret, r.m.id, r.m.log), r.how)
      /\ UNCHANGED <<alg, policy, wasmCache, mutex, calls, hashers, blob,
                     microtasks, loads>>

\* the loader invocation started by lockedCreate settles
LoadSettle(ok) ==
  LET id == IF ok THEN Len(modules) + 1 ELSE 0
      r == loadSettled(id, LoadError(loads.lockedCreate))
  IN  /\ mutex.state = "Loading"
      /\ mutex' = r.mutex
      /\ policy' \in IF ok \/ policy # "unseen" THEN {policy} ELSE Policies
      /\ modules' = IF ok THEN Append(modules, NewModule(id, HashLength)) ELSE modules
      /\ calls' = [c \in DOMAIN calls |->
                     IF c \in Range(r.resolved) THEN [calls[c] EXCEPT !.status = "queued"]
                     ELSE IF c \in Range(r.rejected)
                     THEN [calls[c] EXCEPT !.status = "rejected", !.result = r.mutex.error]
                     ELSE calls[c]]
      /\ microtasks' = microtasks \o [i \in DOMAIN r.resolved |->
                                        [kind |-> "calculate", i |-> r.resolved[i], wasm |-> id]]
      /\ loads' = [loads EXCEPT !.failed = @ + (IF ok THEN 0 ELSE 1),
                                !.settled = @ + 1,
                                !.lockedCreate = @ + (IF r.invoke THEN 1 ELSE 0)]
      /\ last' = Did(IF ok THEN "loaded" ELSE "loadFailed", 0, <<>>, <<>>, Null, id, <<>>)
      /\ UNCHANGED <<alg, wasmCache, seedBuffer, hashers, blob>>

\* the continuation of a first-use calculate() runs
RunThenCalculate ==
  /\ microtasks # <<>>
  /\ Head(microtasks).kind = "calculate"
  /\ LET t == Head(microtasks)
         r == ThenCalculate(t.wasm, t.i)
     IN  /\ wasmCache' = r.cache
         /\ seedBuffer' = r.buf
         /\ modules' = [modules EXCEPT ![r.m.id] = Kept(r.m)]
         /\ calls' = [calls EXCEPT ![t.i] =
                        [@ EXCEPT !.status = IF IsError(r.ret) THEN "rejected" ELSE "resolved",
                                  !.result = r.ret, !.mod = t.wasm]]
         /\ last' = Did("then", t.i, <<>>, calls[t.i].data, r.ret, r.m.id, r.m.log)
  /\ microtasks' = Tail(microtasks)
  /\ UNCHANGED <<alg, policy, mutex, hashers, blob, loads>>

----------------------------------------------------------------------------
(* createHasher(): createCRC32(), createSHA224(),                          *)
(* createXXHash64(seedLow, seedHigh), and the Hasher object                *)

\* Beside the fields of the code (wasm, instanceBuffer) a Hasher carries
\* what its caller knows of it:
\*   ref       the session, from the arguments of the calls made on it:
\*             the seed in force and the bytes fed since the last reset
\*   label     Initialized, Accumulating or Digested
\*   dig       the value digest() returned when no update(), init() or
\*             load() came after it, and whether it returned it twice
Session(seedLow, seedHigh, data) ==
  [seedLow |-> seedLow, seedHigh |-> seedHigh, data |-> data]

\* a seed argument is rejected: Promise.reject(validateSeed(..))
CreateHasherRejected(a) ==
  LET seedLow == Default(a[1])
      seedHigh == Default(a[2])
  IN  /\ SeedCheck(seedLow, seedHigh) # Null
      /\ last' = Promised(Did("createHasher", 0, a, <<>>, SeedCheck(seedLow, seedHigh),
                               0, <<>>), "rejected")
      /\ UNCHANGED <<alg, policy, wasmCache, seedBuffer, mutex, modules, calls,
                     hashers, blob, microtasks, loads>>

\* return WASMInterface(wasmJson, n).then(..)
CreateHasher(a) ==
  LET seedLow == Default(a[1])
      seedHigh == Default(a[2])
      h == Len(hashers) + 1
      s == CreateStart
  IN  /\ SeedCheck(seedLow, seedHigh) = Null
      /\ hashers' = Append(hashers,
                           [status |-> IF s.invoke THEN "loading" ELSE "queued",
                            seedLow |-> seedLow, seedHigh |-> seedHigh,
                            wasm |-> 0, instanceBuffer |-> <<>>, result |-> Null,
                            ref |-> Null, label |-> "none", dig |-> Null])
      /\ loads' = [loads EXCEPT !.createHasher = @ + (IF s.invoke THEN 1 ELSE 0)]
      /\ microtasks' = IF s.invoke THEN microtasks
                       ELSE Append(microtasks, [kind |-> "create", i |-> h, wasm |-> s.wasm])
      /\ last' = Promised(Did("createHasher", h, a, <<>>, Null, 0, <<>>), "pending")
      /\ UNCHANGED <<alg, policy, wasmCache, seedBuffer, mutex, modules, calls, blob>>

\* the loader invocation of createHasher call h settles
HasherLoadSettle(h, ok) ==
  LET id == IF ok THEN Len(modules) + 1 ELSE 0
  IN  /\ h \in DOMAIN hashers
      /\ hashers[h].status = "loading"
      /\ modules' = IF ok THEN Append(modules, NewModule(id, HashLength)) ELSE modules
      /\ hashers' = [hashers EXCEPT ![h] =
                       IF ok THEN [@ EXCEPT !.status = "queued"]
                       ELSE [@ EXCEPT !.status = "failed",
                                      !.result = LoadError(loads.createHasher)]]
      /\ microtasks' = IF ok THEN Append(microtasks, [kind |-> "create", i |-> h, wasm |-> id])
                       ELSE microtasks
      /\ last' = Did(IF ok THEN "loaded" ELSE "loadFailed", h, <<>>, <<>>, Null, id, <<>>)
      /\ UNCHANGED <<alg, policy, wasmCache, seedBuffer, mutex, calls, blob, loads>>

\* the continuation of createHasher() runs and returns obj
RunThenCreate ==
  /\ microtasks # <<>>
  /\ Head(microtasks).kind = "create"
  /\ LET t == Head(microtasks)
         r == OnCreate(modules[t.wasm], hashers[t.i].seedLow, hashers[t.i].seedHigh)
     IN  /\ modules' = [modules EXCEPT ![r.m.id] = Kept(r.m)]
         /\ hashers' = [hashers EXCEPT ![t.i] =
                          [@ EXCEPT !.status = "ready", !.wasm = t.wasm,
                                    !.instanceBuffer = r.instanceBuffer,
                                    !.label = "Initialized",
                                    !.ref = Session(hashers[t.i].seedLow,
                                                     hashers[t.i].seedHigh, <<>>)]]
         /\ last' = Did("created", t.i, <<>>, <<>>, Null, r.m.id, r.m.log)
  /\ microtasks' = Tail(microtasks)
  /\ UNCHANGED <<alg, policy, wasmCache, seedBuffer, mutex, calls, blob, loads>>

Ready(h) == h \in DOMAIN hashers /\ hashers[h].status = "ready"

\* obj.init()
HasherInit(h) ==
  /\ Ready(h)
  /\ LET m == ObjInit(modules[hashers[h].wasm], hashers[h].instanceBuffer)
     IN  /\ modules' = [modules EXCEPT ![m.id] = Kept(m)]
         /\ last' = DidOn("init", h, <<>>, Null, m.id, m.log)
  /\ hashers' = [hashers EXCEPT ![h] =
                   [@ EXCEPT !.ref = Session(hashers[h].seedLow, hashers[h].seedHigh, <<>>),
                             !.label = "Initialized", !.dig = Null]]
  /\ UNCHANGED <<alg, policy, wasmCache, seedBuffer, mutex, calls, blob, microtasks, loads>>

\* obj.update(data)
HasherUpdate(h, data) ==
  /\ Ready(h)
  /\ Len(modules[hashers[h].wasm].st.data) + Len(data) <= MaxAcc
  /\ LET m == ObjUpdate(modules[hashers[h].wasm], data)
     IN  /\ modules' = [modules EXCEPT ![m.id] = Kept(m)]
         /\ last' = DidOn("update", h, data, Null, m.id, m.log)
  /\ hashers' = [hashers EXCEPT ![h] =
                   [@ EXCEPT !.ref = [@ EXCEPT !.data = @ \o data],
                             !.label = "Accumulating", !.dig = Null]]
  /\ UNCHANGED <<alg, policy, wasmCache, seedBuffer, mutex, calls, blob, microtasks, loads>>

\* obj.digest()
HasherDigest(h) ==
  /\ Ready(h)
  /\ LET r == ObjDigest(modules[hashers[h].wasm])
     IN  /\ modules' = [modules EXCEPT ![r.m.id] = Kept(r.m)]
         /\ hashers' = [hashers EXCEPT ![h] =
                          [@ EXCEPT !.label = "Digested",
                                    !.dig = [value |-> r.ret, twice |-> hashers[h].dig # Null]]]
         /\ last' = DidOn("digest", h, <<>>, r.ret, r.m.id, r.m.log)
  /\ UNCHANGED <<alg, policy, wasmCache, seedBuffer, mutex, calls, blob, microtasks, loads>>

\* obj.save(); the object of createSHA224 has no save property, and
\* calling it throws a TypeError
HasherSave(h) ==
  /\ Ready(h)
  /\ IF HasSaveLoad
     THEN LET r == ObjSave(modules[hashers[h].wasm])
          IN  /\ modules' = [modules EXCEPT ![r.m.id] = Kept(r.m)]
              /\ blob' = [value |-> r.ret, ref |-> hashers[h].ref,
                          seedLow |-> hashers[h].seedLow, seedHigh |-> hashers[h].seedHigh]
              /\ last' = DidOn("save", h, <<>>, r.ret, r.m.id, r.m.log)
     ELSE /\ last' = DidOn("save", h, <<>>, NotAFunction, 0, <<>>)
          /\ UNCHANGED <<modules, blob>>
  /\ UNCHANGED <<alg, policy, wasmCache, seedBuffer, mutex, calls, hashers, microtasks, loads>>

\* obj.load(blob), with a blob that save() returned on a Hasher of the
\* same configuration (callers load no other); the object of createSHA224
\* has no load property
HasherLoad(h) ==
  /\ Ready(h)
  /\ IF HasSaveLoad
     THEN /\ blob # Null
          /\ blob.seedLow = hashers[h].seedLow /\ blob.seedHigh = hashers[h].seedHigh
          /\ LET m == ObjLoad(modules[hashers[h].wasm], blob.value)
             IN  /\ modules' = [modules EXCEPT ![m.id] = Kept(m)]
                 /\ last' = DidOn("load", h, <<>>, Null, m.id, m.log)
          /\ hashers' = [hashers EXCEPT ![h] = [@ EXCEPT !.ref = blob.ref, !.dig = Null]]
     ELSE /\ last' = DidOn("load", h, <<>>, NotAFunction, 0, <<>>)
          /\ UNCHANGED <<modules, hashers>>
  /\ UNCHANGED <<alg, policy, wasmCache, seedBuffer, mutex, calls, blob, microtasks, loads>>

----------------------------------------------------------------------------

Hashers == 1..(MaxCreate + MaxTasks)

\* the facade's one-shot calls, and createHasher() up to the new Hasher
Next ==
  \/ \E a \in SeedArgsOf : CalculateRejected(a)
  \/ \E data \in CalcData, a \in SeedArgsOf :
       Len(calls) < MaxCalls /\ CalculateFirstUse(data, a)
  \/ \E data \in CalcData, a \in SeedArgsOf : CalculateReady(data, a)
  \/ \E ok \in BOOLEAN : LoadSettle(ok)
  \/ RunThenCalculate
  \/ \E a \in SeedArgsOf : CreateHasherRejected(a)
  \/ \E a \in SeedArgsOf : Len(hashers) < MaxCreate /\ CreateHasher(a)
  \/ \E h \in Hashers, ok \in BOOLEAN : HasherLoadSettle(h, ok)
  \/ RunThenCreate

Spec == Init /\ [][Next]_vars

\* Hashers at work, beside one-shot calls on the shared module
NextHasher ==
  \/ \E a \in SeedArgsOf :
       Len(calls) + Len(hashers) < MaxTasks /\ CalculateFirstUse(<<7>>, a)
  \/ \E a \in SeedArgsOf : CalculateReady(<<7>>, a)
  \/ \E ok \in BOOLEAN : LoadSettle(ok)
  \/ RunThenCalculate
  \/ \E a \in SeedArgsOf : Len(calls) + Len(hashers) < MaxTasks /\ CreateHasher(a)
  \/ \E h \in Hashers, ok \in BOOLEAN : HasherLoadSettle(h, ok)
  \/ RunThenCreate
  \/ \E h \in Hashers : HasherInit(h)
  \/ \E h \in Hashers, data \in UpdateData : HasherUpdate(h, data)
  \/ \E h \in Hashers : HasherDigest(h)
  \/ \E h \in Hashers : HasherSave(h)
  \/ \E h \in Hashers : HasherLoad(h)

SpecHasher == Init /\ [][NextHasher]_vars

----------------------------------------------------------------------------
(* What the properties are stated with *)

\* n is an integer in [0, 2^32 - 1]
IsUint32(n) == ~n.frac /\ n.hi \in 0..65535 /\ n.lo \in 0..65535

\* byte k (0 = least significant) of the unsigned 32-bit number n
ByteOf(n, k) ==
  CASE k = 0 -> n.lo % 256
    [] k = 1 -> n.lo \div 256
    [] k = 2 -> n.hi % 256
    [] OTHER -> n.hi \div 256

\* the little-endian bytes of the 64-bit seed seedHigh * 2^32 + seedLow
SeedLE(seedLow, seedHigh) ==
  [i \in 1..8 |-> IF i <= 4 THEN ByteOf(seedLow, i - 1) ELSE ByteOf(seedHigh, i - 5)]

\* the hash state of a session that has absorbed data under the seed
StateOf(seedLow, seedHigh, data) ==
  [variant |-> IF alg = "sha224" THEN 224 ELSE 0,
   seed |-> IF alg = "xxhash64" THEN SeedLE(seedLow, seedHigh) ELSE <<>>,
   data |-> data]

\* the digest of data under the seed, for this facade's algorithm
Expected(seedLow, seedHigh, data) ==
  HashOf(CASE alg = "crc32" -> 4 [] alg = "sha224" -> 28 [] OTHER -> 8,
         StateOf(seedLow, seedHigh, data))

Settled(c) == calls[c].status \in {"resolved", "rejected"}

----------------------------------------------------------------------------
(* C1 *)

\* C1 as stated: once all calculate() calls issued while wasmCache was
\* null have settled, lockedCreate has invoked the loader exactly once.
C1_AsStated ==
  (calls # <<>> /\ \A c \in DOMAIN calls : Settled(c)) => loads.lockedCreate = 1

\* C1, amended: for calculate() calls issued while wasmCache is null and
\* before any load of the facade has failed, the loader is invoked exactly
\* once by the time they have all settled; as long as no load has failed
\* no second load is started, whatever calls arrive; and no load is ever
\* started for a caller that arrived while a load was in flight: there are
\* no more loads than callers that arrived with no load in flight.
C1_SingleFlight ==
  /\ (calls # <<>> /\ \A c \in DOMAIN calls : Settled(c) /\ calls[c].born = 0)
       => loads.lockedCreate = 1
  /\ loads.failed = 0 => loads.lockedCreate <= 1
  /\ loads.lockedCreate <= Cardinality({ c \in DOMAIN calls : ~calls[c].joined })

C1_Witness ==
  /\ Len(calls) >= 2
  /\ \E c \in DOMAIN calls : calls[c].joined
  /\ \A c \in DOMAIN calls : calls[c].status = "resolved" /\ calls[c].born = 0
  /\ loads.lockedCreate = 1

----------------------------------------------------------------------------
(* C2 *)

\* C2: every calculate() call that has run its computation, on the
\* cache-empty path or on the cache-ready path, ran it on the module
\* wasmCache refers to now: all callers use one module, and wasmCache is
\* never set to another module or back to null once a call has used it.
C2_OneSharedModule ==
  /\ \A c \in DOMAIN calls : calls[c].mod # 0 => calls[c].mod = wasmCache
  /\ (last.op \in {"calculate", "then"} /\ last.mod # 0) => last.mod = wasmCache
  /\ wasmCache # 0 => (wasmCache \in DOMAIN modules /\ mutex.module = wasmCache)

C2_Witness ==
  /\ Len(calls) >= 2
  /\ \A c \in DOMAIN calls : calls[c].status = "resolved" /\ calls[c].mod = wasmCache
  /\ last.op = "calculate" /\ last.mod = wasmCache

----------------------------------------------------------------------------
(* C3 *)

BadSeedArgs(a) == ~(IsUint32(Default(a[1])) /\ IsUint32(Default(a[2])))

\* C3: a step that is xxhash64() or createXXHash64() with a seed component
\* that is no integer in [0, 2^32 - 1] returns the validation error, makes
\* no wrapper call, and leaves wasmCache, seedBuffer, the cell, every
\* module, the loader counts and all pending work as they were.
C3_InvalidSeedRejected ==
  [][ (Seeded /\ last'.op \in {"calculate", "createHasher"} /\ BadSeedArgs(last'.args))
        => /\ last'.ret = SeedError
           /\ last'.trace = <<>> /\ last'.mod = 0 /\ last'.who = 0
           /\ UNCHANGED <<wasmCache, seedBuffer, mutex, modules, loads, calls,
                          hashers, microtasks, blob>> ]_vars

C3_Witness ==
  /\ last.op = "calculate" /\ last.ret = SeedError /\ last.args = <<Zero, TwoTo32>>
  /\ wasmCache # 0

----------------------------------------------------------------------------
(* C4 *)

\* the wrapper operations of one calculate() on the cached module
OneShotTrace(seedLow, seedHigh, data) ==
  (IF Seeded THEN << [op |-> "writeMemory", bytes |-> SeedLE(seedLow, seedHigh)] >>
   ELSE << >>)
  \o << [op |-> "init", variant |-> IF alg = "sha224" THEN 224 ELSE 0],
        [op |-> "update", data |-> data], [op |-> "digest"] >>

\* C4: every calculate() that resolved, whichever path it took and
\* whatever other calls were pending, returned the digest of its own data
\* under its own seed; and the step in which it ran made exactly its own
\* seed write, init, update and digest on the cached module, so no step of
\* another call lies between them.
C4_OwnSeedOwnData ==
  /\ \A c \in DOMAIN calls :
       calls[c].status = "resolved" =>
         calls[c].result = Expected(calls[c].seedLow, calls[c].seedHigh, calls[c].data)
  /\ (last.op = "calculate" /\ last.mod # 0 /\ ~IsError(last.ret)) =>
       /\ last.ret = Expected(Default(last.args[1]), Default(last.args[2]), last.data)
       /\ last.trace = OneShotTrace(Default(last.args[1]), Default(last.args[2]), last.data)
  /\ (last.op = "then" /\ ~IsError(last.ret)) =>
       /\ last.ret = calls[last.who].result
       /\ last.trace = OneShotTrace(calls[last.who].seedLow, calls[last.who].seedHigh,
                                    calls[last.who].data)

C4_Witness ==
  /\ Seeded
  /\ Len(calls) >= 2
  /\ \A c \in DOMAIN calls : calls[c].status = "resolved"
  /\ calls[1].seedLow # calls[2].seedLow /\ calls[1].data # calls[2].data
  /\ last.op = "then"

----------------------------------------------------------------------------
(* C5 *)

IsReady(h) == hashers[h].status = "ready"
ModuleOf(h) == modules[hashers[h].wasm]

\* C5: each Hasher has a module of its own, not the cached one; the hash
\* state of that module, hence what its digest() and save() return, is
\* the one its own session (creation seed, its own init, update and load
\* calls) leads to, whatever other Hashers and one-shot calls did; and the
\* seed it will apply at its next init() is its creation seed.
C5_HashersIsolated ==
  /\ \A h \in DOMAIN hashers :
       IsReady(h) =>
         /\ hashers[h].wasm # wasmCache
         /\ \A g \in DOMAIN hashers : (g # h /\ IsReady(g)) => hashers[g].wasm # hashers[h].wasm
         /\ ModuleOf(h).st = StateOf(hashers[h].ref.seedLow, hashers[h].ref.seedHigh,
                                     hashers[h].ref.data)
         /\ Seeded => hashers[h].instanceBuffer = SeedLE(hashers[h].seedLow, hashers[h].seedHigh)
  /\ last.op = "digest" =>
       last.ret = Expected(hashers[last.who].ref.seedLow, hashers[last.who].ref.seedHigh,
                           hashers[last.who].ref.data)
  /\ (last.op = "save" /\ HasSaveLoad) =>
       last.ret = [state |-> StateOf(hashers[last.who].ref.seedLow,
                                     hashers[last.who].ref.seedHigh,
                                     hashers[last.who].ref.data)]

C5_Witness ==
  /\ Seeded
  /\ last.op = "init" /\ last.from = "Accumulating"
  /\ wasmCache # 0
  /\ seedBuffer # hashers[last.who].instanceBuffer

----------------------------------------------------------------------------
(* C6 *)

\* C6: every accepted createHasher() call has invoked the loader once; no
\* Hasher is bound to the cached module or to the module of another
\* Hasher; and the steps of createHasher() (the call, the settling of its
\* load, its continuation) leave wasmCache and the mutex as they were.
C6_CreateBypassesCache ==
  [][ /\ loads'.createHasher = Len(hashers')
      /\ \A h \in DOMAIN hashers' :
           hashers'[h].wasm # 0 =>
             /\ hashers'[h].wasm # wasmCache' /\ hashers'[h].wasm # mutex'.module
             /\ \A g \in DOMAIN hashers' : g # h => hashers'[g].wasm # hashers'[h].wasm
      /\ (last'.op \in {"createHasher", "created"} \/ hashers' # hashers)
           => UNCHANGED <<wasmCache, mutex>> ]_vars

C6_Witness ==
  /\ last.op = "created"
  /\ wasmCache # 0
  /\ hashers[last.who].status = "ready" /\ hashers[last.who].wasm # wasmCache

----------------------------------------------------------------------------
(* C7 *)

\* C7: a digest() step leaves every module and the Hasher's session as
\* they were, and when no update(), init() or load() of that Hasher came
\* after its previous digest(), it returns the value that digest() returned.
C7_DigestIdempotent ==
  [][ last'.op = "digest" =>
        /\ modules' = modules
        /\ hashers'[last'.who].ref = hashers[last'.who].ref
        /\ hashers[last'.who].dig # Null => last'.ret = hashers[last'.who].dig.value ]_vars

C7_Witness ==
  /\ last.op = "digest"
  /\ hashers[last.who].dig.twice
  /\ hashers[last.who].ref.data # <<>>

----------------------------------------------------------------------------
(* C8 *)

\* what the operations of a Hasher can depend on
View(m, instanceBuffer) ==
  [st |-> m.st, seed |-> IF Seeded THEN SubSeq(m.mem, 1, SeedBytes) ELSE <<>>,
   instanceBuffer |-> instanceBuffer]

\* the Hasher createHasher(seedLow, seedHigh) returns
FreshView(seedLow, seedHigh) ==
  LET f == OnCreate(NewModule(0, HashLength), seedLow, seedHigh)
  IN  View(f.m, f.instanceBuffer)

\* C8: right after init(), from whatever state, the Hasher is in the state
\* of a Hasher just returned by createHasher with its creation parameters.
C8_InitResets ==
  last.op = "init" =>
    View(ModuleOf(last.who), hashers[last.who].instanceBuffer)
      = FreshView(hashers[last.who].seedLow, hashers[last.who].seedHigh)

C8_Witness ==
  /\ last.op = "init" /\ last.from = "Digested"
  /\ hashers[last.who].seedLow = SeedA

----------------------------------------------------------------------------
(* C9 *)

\* what calculate(data) of this facade returns for the seed: the one-shot
\* statements run on a module
OneShot(seedLow, seedHigh, data) ==
  OnCache(NewModule(0, HashLength), ZeroBytes, data, seedLow, seedHigh).ret

\* C9: digest() returns what the one-shot calculate() returns for the
\* concatenation of the bytes fed since the reset, with the same seed,
\* however the bytes were split over update() calls.
C9_IncrementalEquivalence ==
  last.op = "digest" =>
    last.ret = OneShot(hashers[last.who].ref.seedLow, hashers[last.who].ref.seedHigh,
                       hashers[last.who].ref.data)

C9_Witness ==
  /\ last.op = "digest"
  /\ hashers[last.who].ref.data = <<1, 1>>

----------------------------------------------------------------------------
(* C10 *)

\* Where save() and load() exist (CRC-32, xxHash64): load(blob) puts the
\* Hasher in the hash state save() copied out; and two Hashers created with
\* the same parameters whose sessions agree, one of them by having loaded
\* the other's blob, are in the same hash state, so the updates and
\* digests that follow return the same.
SaveRestoreWhereOffered ==
  /\ (last.op = "load" /\ ~IsError(last.ret)) => ModuleOf(last.who).st = blob.value.state
  /\ \A g, h \in DOMAIN hashers :
       ( /\ IsReady(g) /\ IsReady(h)
         /\ hashers[g].seedLow = hashers[h].seedLow
         /\ hashers[g].seedHigh = hashers[h].seedHigh
         /\ hashers[g].ref = hashers[h].ref )
       => ModuleOf(g).st = ModuleOf(h).st

\* a Hasher has loaded the blob of another one
SaveRestoreSeen ==
  /\ last.op = "load" /\ last.from = "Initialized"
  /\ \E g \in DOMAIN hashers :
       /\ g # last.who /\ IsReady(g)
       /\ hashers[g].ref = hashers[last.who].ref
       /\ hashers[g].ref.data = <<1, 2>>

\* C10: on every Hasher, init(); update(A); blob = save(); load(blob);
\* update(B); digest() runs and returns what init(); update(A); update(B);
\* digest() returns: save() returns a blob, load(blob) takes it, and the
\* restored state is the saved one.
C10_SaveRestore ==
  /\ SaveRestoreWhereOffered
  /\ last.op \in {"save", "load"} => ~IsError(last.ret)

----------------------------------------------------------------------------
(* C11 *)

\* C11: on every Hasher, of createCRC32, createSHA224 and createXXHash64,
\* save() and load(blob) can be called in any state, Initialized,
\* Accumulating or Digested: the call does not fail for want of the method,
\* and the Hasher's state label after it is the label before it.
C11_SaveLoadUniform ==
  last.op \in {"save", "load"} =>
    /\ last.ret # NotAFunction
    /\ hashers[last.who].label = last.from

----------------------------------------------------------------------------
(* C12 *)

\* C12: no calculate() or createHasher() call throws; a call that fails,
\* by seed validation, by a failed load or by an error of the cached
\* module, on the cache-empty path or on the cache-ready path, has its
\* promise rejected with that error; a promise is resolved only with a
\* value that is no error; and no call is left waiting once its load has
\* settled.
C12_ErrorsAreRejections ==
  /\ last.how # "thrown"
  /\ (last.op \in {"calculate", "createHasher"} /\ IsError(last.ret)) =>
       \/ last.how = "rejected"
       \/ /\ last.op = "calculate" /\ last.who # 0
          /\ calls[last.who].status = "rejected" /\ calls[last.who].result = last.ret
  /\ last.how = "resolved" => ~IsError(last.ret)
  /\ (last.op = "calculate" /\ last.mod # 0 /\ last.data = BadData) =>
       (last.how = "rejected" /\ last.ret = ComputeError)
  /\ (last.op = "then" /\ IsError(last.ret)) =>
       (calls[last.who].status = "rejected" /\ calls[last.who].result = last.ret)
  /\ \A c \in DOMAIN calls :
       /\ calls[c].status = "resolved" => ~IsError(calls[c].result)
       /\ calls[c].status = "rejected" => IsError(calls[c].result)
       /\ (Settled(c) /\ calls[c].data = BadData) => calls[c].status = "rejected"
       /\ calls[c].status = "waiting" => mutex.state = "Loading"
  /\ \A h \in DOMAIN hashers :
       /\ hashers[h].status = "failed" <=> IsError(hashers[h].result)
       /\ (last.op = "loadFailed" /\ last.who = h) => hashers[h].status = "failed"

\* a load error, then a compute error on the cache-ready path
C12_Witness ==
  /\ last.op = "calculate" /\ last.mod # 0 /\ last.ret = ComputeError
  /\ \E c \in DOMAIN calls : calls[c].status = "rejected" /\ calls[c].result = LoadError(1)
  /\ \E c \in DOMAIN calls : calls[c].status = "rejected" /\ calls[c].result = ComputeError

----------------------------------------------------------------------------
(* C13 *)

\* valid one-shot inputs
GoodData == CalcData \ {BadData}
GoodSeedArgs == IF Seeded THEN ValidSeedArgs ELSE { <<Undefined, Undefined>> }

\* what calculate(data, a) answers when it runs on module m with the
\* scratch buffer buf
AnswerOn(m, buf, data, a) == OnCache(m, buf, data, Default(a[1]), Default(a[2])).ret

\* C13: a step in which a calculate() or createHasher() call fails with
\* an error that is no load error (a rejected seed, or an error of the
\* cached module on the cache-ready path or inside the first-use
\* continuation) leaves the cell as it was and wasmCache on the module it
\* referred to, if any; after it wasmCache is null or a module the loader
\* produced; and every valid calculate(data, seed) on the cell's module
\* answers after the step what it would have answered before it.
C13_FailureKeepsCache ==
  [][ ( /\ last'.op \in {"calculate", "then", "createHasher"}
        /\ IsError(last'.ret) /\ last'.ret.error # "LoadError" )
      => /\ mutex' = mutex
         /\ wasmCache # 0 => wasmCache' = wasmCache
         /\ wasmCache' # 0 => (wasmCache' \in DOMAIN modules' /\ wasmCache' = mutex.module)
         /\ mutex.state = "Ready" =>
              \A data \in GoodData, a \in GoodSeedArgs :
                AnswerOn(modules'[mutex.module], seedBuffer', data, a)
                  = AnswerOn(modules[mutex.module], seedBuffer, data, a) ]_vars

\* the computation failed inside a first-use continuation, after an
\* earlier continuation had set wasmCache
C13_Witness ==
  /\ last.op = "then" /\ last.ret = ComputeError
  /\ wasmCache # 0
  /\ \E c \in DOMAIN calls : calls[c].status = "resolved"

----------------------------------------------------------------------------
(* C14 *)

\* the cache-ready calculate() of the last step resolved
ReadyResolved == last.op = "calculate" /\ last.mod # 0 /\ last.how = "resolved"

\* C14: two calculate() calls of the facade with the same data and the
\* same seed, an omitted seed component counting as 0, resolve with the
\* same digest: two calls that took the cache-empty path, whatever ran
\* between their continuations, and a call on the cache-ready path
\* against any earlier call; a cache-ready call returns the one digest of
\* (data, seed), whatever the calls before it left in the module and in
\* seedBuffer.
C14_Deterministic ==
  /\ \A c, d \in DOMAIN calls :
       ( /\ calls[c].status = "resolved" /\ calls[d].status = "resolved"
         /\ calls[c].data = calls[d].data
         /\ calls[c].seedLow = calls[d].seedLow /\ calls[c].seedHigh = calls[d].seedHigh )
       => calls[c].result = calls[d].result
  /\ ReadyResolved =>
       /\ \A c \in DOMAIN calls :
            ( /\ calls[c].status = "resolved" /\ calls[c].data = last.data
              /\ calls[c].seedLow = Default(last.args[1])
              /\ calls[c].seedHigh = Default(last.args[2]) )
            => calls[c].result = last.ret
       /\ last.ret = Expected(Default(last.args[1]), Default(last.args[2]), last.data)
       /\ last.args = <<Undefined, Undefined>> => last.ret = Expected(Zero, Zero, last.data)

\* a seeded call on the cache-empty path, a call with another seed after
\* it, then the first call's data again with the seed left out
C14_Witness ==
  /\ Seeded /\ ReadyResolved
  /\ last.args = <<Undefined, Undefined>>
  /\ Len(calls) = 2
  /\ calls[1].status = "resolved" /\ calls[2].status = "resolved"
  /\ calls[1].seedLow = Zero /\ calls[1].seedHigh = Zero /\ calls[1].data = last.data
  /\ calls[2].seedLow = SeedA
  /\ last.ret = calls[1].result
  /\ seedBuffer = ZeroBytes

----------------------------------------------------------------------------
(* C15 *)

\* loader invocations of lockedCreate that have not settled yet
InFlight == loads.lockedCreate - loads.settled

\* C15: of the loader invocations the facade's calculate() path has
\* started through lockedCreate, at most one is in flight at any time,
\* and one is in flight exactly while the cell is Loading.
C15_OneLoadInFlight ==
  /\ InFlight \in {0, 1}
  /\ InFlight = 1 <=> mutex.state = "Loading"

\* two calls wait on the one load in flight
C15_Witness ==
  /\ InFlight = 1
  /\ Len(mutex.waiters) = 2
  /\ \A c \in DOMAIN calls : calls[c].status = "waiting"

----------------------------------------------------------------------------
(* C16 *)

\* C16: in the step in which a load started by lockedCreate fails, the
\* cell records the error of that attempt, every calculate() call that was
\* waiting on the load is rejected with that one error, no loader
\* invocation is started and no continuation is queued.
C16_LoadErrorReplayed ==
  [][ (last'.op = "loadFailed" /\ last'.who = 0)
      => /\ mutex'.state = "Failed"
         /\ mutex'.error = LoadError(loads.lockedCreate)
         /\ \A c \in DOMAIN calls :
              calls[c].status = "waiting" =>
                (calls'[c].status = "rejected" /\ calls'[c].result = mutex'.error)
         /\ \A c \in DOMAIN calls : calls[c].status # "waiting" => calls'[c] = calls[c]
         /\ loads'.lockedCreate = loads.lockedCreate
         /\ microtasks' = microtasks ]_vars

\* the load two calls were waiting on has failed
C16_Witness ==
  /\ last.op = "loadFailed" /\ last.who = 0
  /\ Len(calls) = 2
  /\ \A c \in DOMAIN calls :
       calls[c].status = "rejected" /\ calls[c].result = LoadError(1) /\ calls[c].born = 0
  /\ loads.lockedCreate = 1

----------------------------------------------------------------------------
(* C17 *)

\* the calls that take part in the settling of promises: calculate() on
\* both paths, with data the module accepts and data it refuses, and
\* createHasher(), whose continuation shares the microtask queue
NextLive ==
  \/ \E data \in {<<7>>, BadData} :
       Len(calls) < MaxCalls /\ CalculateFirstUse(data, <<Undefined, Undefined>>)
  \/ CalculateReady(<<7>>, <<Undefined, Undefined>>)
  \/ \E ok \in BOOLEAN : LoadSettle(ok)
  \/ RunThenCalculate
  \/ Len(hashers) < MaxCreate /\ CreateHasher(<<Undefined, Undefined>>)
  \/ \E h \in Hashers, ok \in BOOLEAN : HasherLoadSettle(h, ok)
  \/ RunThenCreate

\* Every loader invocation completes, with a module or with a failure, and
\* the event loop runs the continuations that are ready.
SpecLive ==
  /\ Init /\ [][NextLive]_vars
  /\ WF_vars(\E ok \in BOOLEAN : LoadSettle(ok))
  /\ WF_vars(\E h \in Hashers, ok \in BOOLEAN : HasherLoadSettle(h, ok))
  /\ WF_vars(RunThenCalculate)
  /\ WF_vars(RunThenCreate)

\* call c has been issued on the cache-empty path
Issued(c) == c \in DOMAIN calls
\* and its promise is resolved or rejected
HasSettled(c) == c \in DOMAIN calls /\ Settled(c)

\* C17: when every loader invocation completes, every calculate() call
\* that returned a pending promise, issued before, during or after a
\* failed load, is eventually resolved or rejected.
C17_EveryCallSettles == \A c \in 1..MaxCalls : Issued(c) ~> HasSettled(c)

\* a call issued after a failed load has resolved
C17_Witness ==
  /\ Len(calls) = 2
  /\ calls[1].status = "rejected" /\ calls[1].result = LoadError(1)
  /\ calls[2].born = 1 /\ calls[2].status = "resolved"

----------------------------------------------------------------------------
(* C18 *)

\* C18: a calculate() call with valid arguments made while wasmCache is
\* non-null is one step on the module wasmCache refers to: its promise is
\* resolved or rejected when the call returns; when it resolves, the step
\* made exactly the seed write (xxHash64), init, update and digest of this
\* call, in that order; and the step invokes no loader, does not touch the
\* mutex, queues no continuation and leaves wasmCache and every pending
\* call as they were.
C18_ReadyPathSynchronous ==
  [][ (last'.op = "calculate" /\ wasmCache # 0 /\ last'.ret # SeedError)
      => /\ last'.mod = wasmCache
         /\ last'.how \in {"resolved", "rejected"}
         /\ last'.how = "resolved" =>
              last'.trace = OneShotTrace(Default(last'.args[1]), Default(last'.args[2]),
                                         last'.data)
         /\ last'.trace # <<>>
         /\ UNCHANGED <<wasmCache, mutex, loads, microtasks, calls>> ]_vars

\* a cache-ready call has completed while the continuation of an earlier
\* call is still queued
C18_Witness ==
  /\ last.op = "calculate" /\ last.mod # 0 /\ last.how = "resolved"
  /\ microtasks # <<>>
  /\ \E c \in DOMAIN calls : calls[c].status = "queued"

----------------------------------------------------------------------------
(* C19 *)

\* the seed the last step works for: that of the calculate() call, or the
\* creation seed of the Hasher
SeedOfStep ==
  CASE last.op = "calculate" -> <<Default(last.args[1]), Default(last.args[2])>>
    [] last.op = "then" -> <<calls[last.who].seedLow, calls[last.who].seedHigh>>
    [] OTHER -> <<hashers[last.who].seedLow, hashers[last.who].seedHigh>>

\* C19: on an xxHash64 module every init, inside a one-shot calculate on
\* either path, at the creation of a Hasher and at every init() of a
\* Hasher, comes directly after a writeMemory at offset 0 of the 8 bytes
\* that encode seedLow little-endian in bytes 0-3 and seedHigh
\* little-endian in bytes 4-7, for the seed of that call or that Hasher.
C19_SeedBeforeInit ==
  Seeded =>
    \A i \in DOMAIN last.trace :
      last.trace[i].op = "init" =>
        /\ i > 1
        /\ last.trace[i - 1] = [op |-> "writeMemory",
                                bytes |-> SeedLE(SeedOfStep[1], SeedOfStep[2])]

\* init() of a Hasher created with seed (0x01020304, 0xFFFFFFFF), after a
\* one-shot call has left another seed in seedBuffer
C19_Witness ==
  /\ Seeded
  /\ last.op = "init"
  /\ hashers[last.who].seedLow = SeedA /\ hashers[last.who].seedHigh = MaxU32
  /\ last.trace[1].bytes = <<4, 3, 2, 1, 255, 255, 255, 255>>
  /\ wasmCache # 0 /\ seedBuffer = ZeroBytes

----------------------------------------------------------------------------
(* After a failed load *)

\* Only the continuation of a successful load assigns wasmCache: while the
\* cell holds a failure, wasmCache is null and the next calculate() call
\* goes through lockedCreate, which replays the failure or starts a new
\* load, whichever the cell does.
FailedLoadLeavesCacheNull ==
  /\ mutex.state = "Failed" => wasmCache = 0
  /\ (last.op = "calculate" /\ last.who # 0) =>
       /\ calls[last.who].born > 0 /\ policy = "sticky" =>
            (calls[last.who].status = "rejected" /\ loads.lockedCreate = loads.settled)
       /\ calls[last.who].born > 0 /\ policy = "retry" /\ ~calls[last.who].joined =>
            mutex.state = "Loading"

\* the failure was replayed to a later call
ReplaySeen ==
  /\ last.op = "calculate" /\ last.who = 2 /\ calls[2].born = 1
  /\ calls[2].status = "rejected" /\ calls[2].result = LoadError(1)
  /\ loads.lockedCreate = 1

\* a later call started a new load, which succeeded
RetrySeen ==
  /\ Len(calls) = 2 /\ calls[2].born = 1 /\ calls[2].status = "resolved"
  /\ loads.lockedCreate = 2 /\ wasmCache # 0 /\ mutex.state = "Ready"

====
